---- MODULE Spec2Model ----
(***************************************************************************)
(* A model of thoonk.js feed.js: the publish / retract protocol of a Feed  *)
(* over its Redis keys, one process (one Feed object, one shared mredis    *)
(* connection) together with other processes writing to the same feed,     *)
(* and the Feed's channel subscription (ready / subscribe).                *)
(***************************************************************************)
EXTENDS Integers, Sequences, FiniteSets

\* ------------------------------------------------------------------ bounds
\* Item IDs that calls may use.  IDs are compared like Redis compares
\* members of equal score: by their own order.
Ids == {1, 2, 3}
\* Concurrent publish/retract calls of the process.
Slots == {1, 2}
\* The values of the feed's max_length configuration that are explored
\* (0: the field is not set, the feed is unbounded).
MaxLengths == {0, 2}
\* Calls issued by the process, and the last value of the millisecond clock.
MaxCalls == 2
MaxTime == 2
\* The other processes that write to the feed, one committed batch each.
Writers == {"w1"}
\* Subscribe calls made on the Feed object.
MaxSubscribe == 6
\* thoonk.once("ready:" + name, ...): the ready event is handled once.
MaxReady == 1

\* Item contents are numbers: the calls of the process publish 1, 2, ...,
\* other processes publish OtherItem, and NoItem is Redis' nil.
OtherItem == 0
NoItem == 0 - 1
NotFound == "Id does not exist."

VARIABLES
    ids,          \* feed.ids:[feed]: member -> score, 0 when not a member
    items,        \* feed.items:[feed]: field -> content, NoItem when absent
    publishes,    \* feed.publishes:[feed]
    now,          \* Date.now()
    max_length,   \* thoonk.feeds[name]['max_length']
    lock,         \* thoonk.lock is held
    watched,      \* the mredis connection has WATCHed feed.ids
    dirty,        \* ... and feed.ids was modified since
    mredisQ,      \* commands sent on mredis that Redis has not yet served
    call,         \* per slot: the publish/retract call it runs
    started,      \* calls issued so far
    others,       \* the other processes that have committed their write
    subscribed,   \* Feed.subscribed
    chanSubs,     \* times the four channels were subscribed on lredis
    idleOnce,     \* once-listeners on lredis 'idle'
    timers,       \* pending setTimeout callbacks of feedReady
    readyEmits,   \* 'ready' events the Feed has emitted
    doneCalls,    \* done_callback invocations
    lastSub,      \* what the last subscribe call did
    readies,      \* ready events delivered to the Feed
    subCalls      \* subscribe calls made

\* The contents the next call may publish: one that no earlier call used.
Items == {started + 1}

storeVars == <<ids, items, publishes>>
procVars == <<now, max_length, lock, watched, dirty, mredisQ, call, started, others>>
subVars == <<subscribed, chanSubs, idleOnce, timers, readyEmits, doneCalls,
             lastSub, readies, subCalls>>
vars == <<ids, items, publishes, now, max_length, lock, watched, dirty, mredisQ,
          call, started, others, subscribed, chanSubs, idleOnce, timers,
          readyEmits, doneCalls, lastSub, readies, subCalls>>

\* ------------------------------------------------------- Redis primitives
\* The members of a sorted set.
members(z) == {m \in Ids : z[m] # 0}

\* Sorted-set order: by score, members of equal score by member.
zless(z, a, b) == z[a] < z[b] \/ (z[a] = z[b] /\ a < b)

\* ZRANK key member: the number of members ordered before it.
zrankOf(z, m) == Cardinality({k \in members(z) : zless(z, k, m)})

\* The members in increasing order.
zsorted(z) ==
    [i \in 1..Cardinality(members(z)) |->
        CHOOSE m \in members(z) : zrankOf(z, m) = i - 1]

\* ZRANGE key start stop (ranks from 0, negative ones count from the end).
zrange(z, start, stop) ==
    LET n == Cardinality(members(z))
        s0 == IF start < 0 THEN n + start ELSE start
        e0 == IF stop < 0 THEN n + stop ELSE stop
        s == IF s0 < 0 THEN 0 ELSE s0
        e == IF e0 >= n THEN n - 1 ELSE e0
    IN  IF s > e \/ s >= n THEN <<>>
        ELSE [i \in 1..(e - s + 1) |-> zsorted(z)[s + i]]

\* One queued command of a MULTI batch.
Cmd(op, id, score, item) == [op |-> op, id |-> id, score |-> score, item |-> item]

\* The state a batch runs on, with the notifications it publishes and the
\* replies of its commands.
Store(z, h, n) == [ids |-> z, items |-> h, publishes |-> n, out |-> <<>>, replies |-> <<>>]

\* One command of a batch applied by Redis.
applyCmd(st, c) ==
    CASE c.op = "zrem" ->
            [st EXCEPT !.ids[c.id] = 0,
                       !.replies = Append(@, IF st.ids[c.id] # 0 THEN 1 ELSE 0)]
      [] c.op = "hdel" ->
            [st EXCEPT !.items[c.id] = NoItem,
                       !.replies = Append(@, IF st.items[c.id] # NoItem THEN 1 ELSE 0)]
      [] c.op = "publish" ->
            [st EXCEPT !.out = Append(@, [kind |-> "retract", id |-> c.id, item |-> NoItem]),
                       !.replies = Append(@, 0)]
      [] c.op = "zadd" ->
            [st EXCEPT !.ids[c.id] = c.score,
                       !.replies = Append(@, IF st.ids[c.id] = 0 THEN 1 ELSE 0)]
      [] c.op = "incr" ->
            [st EXCEPT !.publishes = @ + 1,
                       !.replies = Append(@, st.publishes + 1)]
      [] c.op = "hset" ->
            [st EXCEPT !.items[c.id] = c.item,
                       !.replies = Append(@, IF st.items[c.id] = NoItem THEN 1 ELSE 0)]

\* EXEC of a batch whose watch is clean: the commands in order, atomically.
RECURSIVE execBatch(_, _)
execBatch(cmds, st) ==
    IF cmds = <<>> THEN st
    ELSE execBatch(Tail(cmds), applyCmd(st, Head(cmds)))

\* ------------------------------------------------------------ feed.js
Nil == 0 - 1

\* The truth value JavaScript gives a reply: null, undefined and 0 are false.
truthy(reply) == reply # Nil /\ reply # 0

\* evictCmds without the hdel of the evicted items.
RECURSIVE evictCmdsNoHdel(_)
evictCmdsNoHdel(delete_ids) ==
    IF delete_ids = <<>> THEN <<>>
    ELSE <<Cmd("zrem", Head(delete_ids), 0, NoItem),
           Cmd("publish", Head(delete_ids), 0, NoItem)>>
         \o evictCmdsNoHdel(Tail(delete_ids))

\* delete_ids.forEach(zrem, hdel, publish feed.retract).
RECURSIVE evictCmds(_)
evictCmds(delete_ids) ==
    IF delete_ids = <<>> THEN <<>>
    ELSE <<Cmd("zrem", Head(delete_ids), 0, NoItem),
           Cmd("hdel", Head(delete_ids), 0, NoItem),
           Cmd("publish", Head(delete_ids), 0, NoItem)>>
         \o evictCmds(Tail(delete_ids))

\* insertCmds with hset storing the id in place of the item.
insertCmdsWrongValue(id, item, t) ==
    <<Cmd("zadd", id, t, NoItem), Cmd("incr", 0, 0, NoItem), Cmd("hset", id, 0, id + 10)>>

\* zadd(feed.ids, Date.now(), id); incr(feed.publishes); hset(feed.items, id, item).
insertCmds(id, item, t) ==
    <<Cmd("zadd", id, t, NoItem), Cmd("incr", 0, 0, NoItem), Cmd("hset", id, 0, item)>>

\* The commands one publish_attempt queues on pmulti.
attemptCmds(delete_ids, id, item, t) == evictCmds(delete_ids) \o insertCmds(id, item, t)

\* rmulti: zrem, hdel, publish feed.retract.
retractCmds(id) ==
    <<Cmd("zrem", id, 0, NoItem), Cmd("hdel", id, 0, NoItem), Cmd("publish", id, 0, NoItem)>>

\* mredis.zrange('feed.ids:' + name, 0, -max_length).
overflow(z, maxlen) == zrange(z, 0, 0 - maxlen)

\* zrank with a reply that is true whatever the arguments.
zrankAlways(z, args) == 1

\* mredis.zrank('feed.ids:' + name, callback): args are the arguments after
\* the key.  ZRANK takes exactly one member; with any other number of
\* arguments Redis answers with an error and the reply is undefined.
zrank(z, args) ==
    IF Len(args) # 1 THEN Nil
    ELSE IF z[args[1]] = 0 THEN Nil ELSE zrankOf(z, args[1])

\* The arguments feedRetract passes to zrank after the key.
zrankArgs(id) == <<>>

\* reply.slice(-3,-2)[0]
slice3(replies) == replies[Len(replies) - 2]

\* The notification the exec callback of feedPublish sends.
publishNotice(replies, id, item) ==
    IF truthy(slice3(replies))
    THEN [kind |-> "publish", id |-> id, item |-> item]
    ELSE [kind |-> "edit", id |-> id, item |-> item]

\* feedGetIds, feedGetItem
getIds == zrange(ids, 0, 0 - 1)
getItem(id) == items[id]

\* The IDs a batch writes.
batchIds(cmds) == {cmds[i].id : i \in {j \in 1..Len(cmds) : cmds[j].op # "incr"}}

IdleCall ==
    [pc |-> "idle", op |-> "none", id |-> 0, item |-> NoItem, pmulti |-> <<>>,
     cb |-> <<>>, notified |-> <<>>, aborts |-> 0, touched |-> FALSE, stale |-> FALSE]

\* A finished publish whose ID is written again by a later batch.
touch(cl, c, written) ==
    [d \in Slots |->
        IF d # c /\ cl[d].pc = "done" /\ cl[d].op = "publish" /\ cl[d].id \in written
        THEN [cl[d] EXCEPT !.touched = TRUE]
        ELSE cl[d]]

Sent(c, kind) == [slot |-> c, kind |-> kind]

\* The call of slot d has had its WATCH served and its attempt has not ended.
Watching(cl, q, d) ==
    /\ cl[d].pc = "active"
    /\ cl[d].op = "retract" \/ max_length # 0
    /\ \A i \in 1..Len(q) : q[i] # Sent(d, "watch")

\* A batch that is not of slot c leaves feed.ids as z: the calls that watch
\* feed.ids have a read that is out of date when z differs from it.
outdate(cl, c, q, z) ==
    [d \in Slots |->
        IF d # c /\ z # ids /\ Watching(cl, q, d)
        THEN [cl[d] EXCEPT !.stale = TRUE]
        ELSE cl[d]]

\* The slot a new call takes: the first one that runs no call.
FreeSlots == {c \in Slots : call[c].pc \in {"idle", "done", "crashed"}}
freeSlot == CHOOSE c \in FreeSlots : \A d \in FreeSlots : c <= d

\* IDs that no item of the feed and no call in flight uses.
Unused == {m \in Ids : ids[m] = 0 /\ items[m] = NoItem
                        /\ \A c \in Slots : call[c].id # m}

Init ==
    /\ ids = [m \in Ids |-> 0]
    /\ items = [m \in Ids |-> NoItem]
    /\ publishes = 0
    /\ now = 1
    /\ max_length \in MaxLengths
    /\ lock = FALSE
    /\ watched = FALSE
    /\ dirty = FALSE
    /\ mredisQ = <<>>
    /\ call = [c \in Slots |-> IdleCall]
    /\ started = 0
    /\ others = {}
    /\ subscribed = FALSE
    /\ chanSubs = 0
    /\ idleOnce = <<>>
    /\ timers = 0
    /\ readyEmits = 0
    /\ doneCalls = 0
    /\ lastSub = "none"
    /\ readies = 0
    /\ subCalls = 0

\* The values Date.now() may return at its next call: the clock never
\* goes back.
DateNow == now..MaxTime

\* publish_attempt that sends WATCH and no ZRANGE.
publish_attemptWatchOnly(q, c) == Append(q, Sent(c, "watch"))

\* publish_attempt up to the zrange callback: WATCH and ZRANGE are sent.
publish_attempt(q, c) == q \o <<Sent(c, "watch"), Sent(c, "zrange")>>

\* feedPublish up to its first callback: a bounded feed starts its first
\* attempt, an unbounded one queues its batch on pmulti and sends it.
feedPublish(cl, c, q, t) ==
    IF max_length # 0
    THEN [call |-> [cl EXCEPT ![c].pc = "active"], q |-> publish_attempt(q, c)]
    ELSE [call |-> [cl EXCEPT ![c].pc = "active",
                              ![c].pmulti = insertCmds(cl[c].id, cl[c].item, t)],
          q |-> Append(q, Sent(c, "exec"))]

\* feedRetract up to its first callback: WATCH is sent.
feedRetract(cl, c, q) ==
    [call |-> [cl EXCEPT ![c].pc = "active"], q |-> Append(q, Sent(c, "watch"))]

\* What a call does once lock.require lets it run.
run(cl, c, q, t) ==
    IF cl[c].op = "publish" THEN feedPublish(cl, c, q, t) ELSE feedRetract(cl, c, q)

\* Whether the call reads Date.now() before its first callback.
readsClock(cl, c) == cl[c].op = "publish" /\ max_length = 0

\* lock.require: the call runs at once when the lock is free, taking it,
\* and waits otherwise.
require(cl, c, t) ==
    IF lock
    THEN /\ call' = [cl EXCEPT ![c].pc = "waiting"]
         /\ t = now
         /\ UNCHANGED <<lock, mredisQ, now>>
    ELSE /\ lock' = TRUE
         /\ IF readsClock(cl, c) THEN now' = t ELSE t = now /\ now' = now
         /\ call' = run(cl, c, mredisQ, t).call
         /\ mredisQ' = run(cl, c, mredisQ, t).q

\* feed.publish(item, id, callback); u is the value of uuid() when id is null.
publish(item, id, u, t) ==
    /\ started < MaxCalls
    /\ FreeSlots # {}
    /\ IF id = 0 THEN u \in Unused ELSE u = id
    /\ require([call EXCEPT ![freeSlot] = [IdleCall EXCEPT !.op = "publish", !.id = u,
                                                             !.item = item]],
               freeSlot, t)
    /\ started' = started + 1
    /\ UNCHANGED <<storeVars, max_length, watched, dirty, others, subVars>>

\* feed.retract(id, callback)
retract(id) ==
    /\ started < MaxCalls
    /\ FreeSlots # {}
    /\ require([call EXCEPT ![freeSlot] = [IdleCall EXCEPT !.op = "retract", !.id = id]],
               freeSlot, now)
    /\ started' = started + 1
    /\ UNCHANGED <<storeVars, max_length, watched, dirty, others, subVars>>

\* A waiting call runs when the lock has been released.
unlocked(c, t) ==
    /\ call[c].pc = "waiting"
    /\ lock = FALSE
    /\ lock' = TRUE
    /\ IF readsClock(call, c) THEN now' = t ELSE t = now /\ now' = now
    /\ call' = run(call, c, mredisQ, t).call
    /\ mredisQ' = run(call, c, mredisQ, t).q
    /\ UNCHANGED <<storeVars, max_length, watched, dirty, started, others, subVars>>

\* Redis serves WATCH feed.ids; feedRetract's callback sends ZRANK.
ServeWatch ==
    /\ mredisQ # <<>>
    /\ Head(mredisQ).kind = "watch"
    /\ LET c == Head(mredisQ).slot
       IN  mredisQ' = IF call[c].op = "retract"
                      THEN Append(Tail(mredisQ), Sent(c, "zrank"))
                      ELSE Tail(mredisQ)
    /\ call' = [call EXCEPT ![Head(mredisQ).slot].stale = FALSE]
    /\ watched' = TRUE
    /\ UNCHANGED <<storeVars, now, max_length, lock, dirty, started, others, subVars>>

\* Redis serves ZRANGE; the callback queues the attempt's commands on pmulti
\* and sends the batch.
ServeZrange(t) ==
    /\ mredisQ # <<>>
    /\ Head(mredisQ).kind = "zrange"
    /\ LET c == Head(mredisQ).slot
           delete_ids == overflow(ids, max_length)
       IN  /\ call' = [call EXCEPT ![c].pmulti =
                          @ \o attemptCmds(delete_ids, call[c].id, call[c].item, t)]
           /\ mredisQ' = Append(Tail(mredisQ), Sent(c, "exec"))
    /\ now' = t
    /\ UNCHANGED <<storeVars, max_length, lock, watched, dirty, started, others, subVars>>

\* Redis serves UNWATCH.
ServeUnwatch ==
    /\ mredisQ # <<>>
    /\ Head(mredisQ).kind = "unwatch"
    /\ mredisQ' = Tail(mredisQ)
    /\ watched' = FALSE
    /\ dirty' = FALSE
    /\ UNCHANGED <<storeVars, now, max_length, lock, call, started, others, subVars>>

\* One invocation of the caller's callback: its arguments, and how many
\* notifications the call had sent before.
Callback(id, item, err, sent) == [id |-> id, item |-> item, err |-> err, after |-> sent]

\* published with the notice of the exec callback sent first.
publishedNoticeFirst(before, out, notice) == (<<notice>> \o before) \o out

\* The notifications of a call after its committed batch and then the
\* notice of its exec callback have been published.
published(before, out, notice) == (before \o out) \o <<notice>>

\* The exec callback of feedPublish on a reply that is not null: the
\* notification is sent, then the callback is called.
publishDone(cl, c, st) ==
    LET notes == published(cl[c].notified, st.out,
                           publishNotice(st.replies, cl[c].id, cl[c].item))
    IN  [cl EXCEPT ![c].pc = "done",
                   ![c].pmulti = <<>>,
                   ![c].stale = FALSE,
                   ![c].notified = notes,
                   ![c].cb = Append(@, Callback(cl[c].id, cl[c].item, "", Len(notes)))]

\* publishRetry with the caller's callback invoked on the null reply too.
publishRetryCallsBack(cl, c) ==
    [cl EXCEPT ![c].aborts = @ + 1,
               ![c].stale = FALSE,
               ![c].cb = Append(@, Callback(cl[c].id, cl[c].item, "", Len(cl[c].notified)))]

\* The exec callback of feedPublish on a null reply, in a bounded feed:
\* publish_attempt() again, pmulti being kept.
publishRetry(cl, c) == [cl EXCEPT ![c].aborts = @ + 1, ![c].stale = FALSE]

\* The exec callback of feedPublish on a null reply, in an unbounded feed:
\* reply.slice throws.
publishThrow(cl, c) ==
    [cl EXCEPT ![c].pc = "crashed", ![c].aborts = @ + 1, ![c].stale = FALSE]

\* The exec callback of feedRetract on a reply that is not null.
retractDone(cl, c, st) ==
    [cl EXCEPT ![c].pc = "done",
               ![c].pmulti = <<>>,
               ![c].stale = FALSE,
               ![c].notified = @ \o st.out,
               ![c].cb = Append(@, Callback(cl[c].id, NoItem, "", Len(cl[c].notified \o st.out)))]

\* The exec callback of feedRetract on a null reply: this.retract(id,
\* callback) on the next tick, through lock.require.
retractRetry(cl, c) ==
    [cl EXCEPT ![c].pc = "waiting", ![c].aborts = @ + 1, ![c].stale = FALSE]

\* The zrank callback of feedRetract on a reply that is not true.
retractMissing(cl, c) ==
    [cl EXCEPT ![c].pc = "done",
               ![c].stale = FALSE,
               ![c].cb = Append(@, Callback(cl[c].id, NoItem, NotFound, Len(cl[c].notified)))]

\* Redis serves ZRANK; the callback of feedRetract sends rmulti when the
\* reply is true, and otherwise unlocks, unwatches and reports the error.
ServeZrank ==
    /\ mredisQ # <<>>
    /\ Head(mredisQ).kind = "zrank"
    /\ LET c == Head(mredisQ).slot
           reply == zrank(ids, zrankArgs(call[c].id))
       IN  IF truthy(reply)
           THEN /\ call' = [call EXCEPT ![c].pmulti = retractCmds(call[c].id)]
                /\ mredisQ' = Append(Tail(mredisQ), Sent(c, "exec"))
                /\ lock' = lock
           ELSE /\ lock' = FALSE
                /\ mredisQ' = Append(Tail(mredisQ), Sent(c, "unwatch"))
                /\ call' = retractMissing(call, c)
    /\ UNCHANGED <<storeVars, now, max_length, watched, dirty, started, others, subVars>>

\* Redis serves MULTI ... EXEC: the batch is discarded when the watched
\* feed.ids changed, and applied otherwise; the watch ends either way.  The
\* exec callback unlocks and retries, or notifies and calls back.
ServeExec ==
    /\ mredisQ # <<>>
    /\ Head(mredisQ).kind = "exec"
    /\ LET c == Head(mredisQ).slot
       IN  IF watched /\ dirty
           THEN /\ UNCHANGED storeVars
                /\ IF call[c].op = "retract"
                   THEN /\ call' = retractRetry(call, c)
                        /\ mredisQ' = Tail(mredisQ)
                   ELSE IF max_length # 0
                   THEN /\ call' = publishRetry(call, c)
                        /\ mredisQ' = publish_attempt(Tail(mredisQ), c)
                   ELSE /\ call' = publishThrow(call, c)
                        /\ mredisQ' = Tail(mredisQ)
           ELSE \E st \in {execBatch(call[c].pmulti, Store(ids, items, publishes))} :
                /\ ids' = st.ids
                /\ items' = st.items
                /\ publishes' = st.publishes
                /\ mredisQ' = Tail(mredisQ)
                /\ call' = outdate(touch(IF call[c].op = "retract"
                                         THEN retractDone(call, c, st)
                                         ELSE publishDone(call, c, st),
                                         c, batchIds(call[c].pmulti)),
                                   c, Tail(mredisQ), st.ids)
    /\ lock' = FALSE
    /\ watched' = FALSE
    /\ dirty' = FALSE
    /\ UNCHANGED <<now, max_length, started, others, subVars>>

\* Another process commits a publish batch built from the current feed.ids.
OtherPublish(w, id, item, t) ==
    /\ w \notin others
    /\ LET cmds == IF max_length # 0
                   THEN attemptCmds(overflow(ids, max_length), id, item, t)
                   ELSE insertCmds(id, item, t)
       IN  \E st \in {execBatch(cmds, Store(ids, items, publishes))} :
           /\ ids' = st.ids
           /\ items' = st.items
           /\ publishes' = st.publishes
           /\ dirty' = (dirty \/ (watched /\ st.ids # ids))
           /\ call' = outdate(touch(call, 0, batchIds(cmds)), 0, mredisQ, st.ids)
    /\ others' = others \cup {w}
    /\ now' = t
    /\ UNCHANGED <<max_length, lock, watched, mredisQ, started, subVars>>

\* Another process commits the retract batch of a member.
OtherRetract(w, id) ==
    /\ w \notin others
    /\ ids[id] # 0
    /\ \E st \in {execBatch(retractCmds(id), Store(ids, items, publishes))} :
           /\ ids' = st.ids
           /\ items' = st.items
           /\ publishes' = st.publishes
           /\ dirty' = (dirty \/ watched)
           /\ call' = outdate(touch(call, 0, {id}), 0, mredisQ, st.ids)
    /\ others' = others \cup {w}
    /\ UNCHANGED <<now, max_length, lock, watched, mredisQ, started, subVars>>

Next ==
    \/ \E item \in Items, id \in Ids \cup {0}, u \in Ids, t \in DateNow :
            publish(item, id, u, t)
    \/ \E id \in Ids : retract(id)
    \/ \E c \in Slots, t \in DateNow : unlocked(c, t)
    \/ ServeWatch
    \/ \E t \in DateNow : ServeZrange(t)
    \/ ServeZrank
    \/ ServeUnwatch
    \/ ServeExec
    \/ \E w \in Writers, id \in Ids, t \in DateNow : OtherPublish(w, id, OtherItem, t)
    \/ \E w \in Writers, id \in Ids : OtherRetract(w, id)

Spec == Init /\ [][Next]_vars

\* Redis answers every command it was sent, and the lock runs a waiting call
\* once it is free.
Fairness ==
    /\ WF_vars(ServeWatch)
    /\ WF_vars(\E t \in DateNow : ServeZrange(t))
    /\ WF_vars(ServeZrank)
    /\ WF_vars(ServeUnwatch)
    /\ WF_vars(ServeExec)
    /\ WF_vars(\E c \in Slots, t \in DateNow : unlocked(c, t))

SpecFair == Spec /\ Fairness

\* ------------------------------------------------- ready and subscribe
\* The four lredis.subscribe calls, and this.subscribed = true.
subscribeChannels ==
    /\ chanSubs' = chanSubs + 1
    /\ subscribed' = TRUE

\* feedReady: a once-listener on 'idle' and a timer that both emit 'ready',
\* and the channels are subscribed.
feedReady ==
    /\ readies < MaxReady
    /\ readies' = readies + 1
    /\ idleOnce' = Append(idleOnce, "ready")
    /\ timers' = timers + 1
    /\ subscribeChannels
    /\ UNCHANGED <<storeVars, procVars, readyEmits, doneCalls, lastSub, subCalls>>

\* feedSubscribe: the handlers are registered; the channels are subscribed
\* and done_callback waits for 'idle' unless this.subscribed, and then
\* done_callback is called at once.
feedSubscribe ==
    /\ subCalls < MaxSubscribe
    /\ subCalls' = subCalls + 1
    /\ IF ~subscribed
       THEN /\ idleOnce' = Append(idleOnce, "done")
            /\ subscribeChannels
            /\ lastSub' = "subscribed"
            /\ UNCHANGED doneCalls
       ELSE /\ doneCalls' = doneCalls + 1
            /\ lastSub' = "immediate"
            /\ UNCHANGED <<idleOnce, chanSubs, subscribed>>
    /\ UNCHANGED <<storeVars, procVars, timers, readyEmits, readies>>

\* The number of entries of a sequence that equal x.
count(seq, x) == Cardinality({i \in 1..Len(seq) : seq[i] = x})

\* lredis emits 'idle': its once-listeners run and are removed.
lredisIdle ==
    /\ idleOnce # <<>>
    /\ readyEmits' = readyEmits + count(idleOnce, "ready")
    /\ doneCalls' = doneCalls + count(idleOnce, "done")
    /\ idleOnce' = <<>>
    /\ UNCHANGED <<storeVars, procVars, subscribed, chanSubs, timers, lastSub,
                   readies, subCalls>>

\* The 100 ms timer of feedReady fires.
readyTimeout ==
    /\ timers > 0
    /\ timers' = timers - 1
    /\ readyEmits' = readyEmits + 1
    /\ UNCHANGED <<storeVars, procVars, subscribed, chanSubs, idleOnce, doneCalls,
                   lastSub, readies, subCalls>>

NextSub ==
    \/ feedReady
    \/ feedSubscribe
    \/ lredisIdle
    \/ readyTimeout

SpecSub == Init /\ [][NextSub]_vars

\* ---------------------------------------------------------------- claims
size(z) == Cardinality(members(z))

\* The k lowest-ordered members of a sorted set (none when k <= 0).
lowest(z, k) == {m \in members(z) : zrankOf(z, m) < k}

\* The entries of a call's notifications that carry the given ID.
forId(notes, id) == LET carries(e) == e.id = id IN SelectSeq(notes, carries)

Retracted(id) == [kind |-> "retract", id |-> id, item |-> NoItem]

\* The step in which the publish of slot c commits.
PublishCommits(c) ==
    /\ call[c].op = "publish"
    /\ call[c].pc = "active"
    /\ call'[c].pc = "done"

\* The step in which the retract of slot c ends.
RetractEnds(c) ==
    /\ call[c].op = "retract"
    /\ call[c].pc = "active"
    /\ call'[c].pc = "done"

\* C1: in a feed with max_length = N the ID Index never holds more than N
\* members (it grows only when a publish commits).
C1_BoundHolds == max_length # 0 => size(ids) <= max_length

\* C2: the IDs of the ID Index are exactly the keys of the Item Map, in
\* every reachable state.
C2_IndexMatchesItems == members(ids) = {m \in Ids : items[m] # NoItem}

\* C2 witness: a bounded publish has committed after an aborted attempt, its
\* batch evicted an ID, and the feed is not empty.
C2_Witness ==
    \E c \in Slots :
        /\ call[c].pc = "done"
        /\ call[c].op = "publish"
        /\ call[c].aborts > 0
        /\ \E i \in 1..Len(call[c].notified) : call[c].notified[i].kind = "retract"
        /\ size(ids) > 1

\* C3: a committed publish emits exactly one notification for its ID,
\* publish when the ID was not in the ID Index before the commit and edit
\* when it was, and the Item Map then holds the new content for the ID.
C3_PublishOrEdit ==
    [][\A c \in Slots :
        PublishCommits(c) =>
            /\ forId(call'[c].notified, call[c].id)
                 = <<[kind |-> IF ids[call[c].id] = 0 THEN "publish" ELSE "edit",
                      id |-> call[c].id, item |-> call[c].item]>>
            /\ items'[call[c].id] = call[c].item]_vars

\* C4: the IDs a committed publish removes from a bounded feed are exactly
\* the (size - max_length + 1) lowest-scored IDs of the Index at the commit,
\* and none when that number is not positive.  Stated for the publish of
\* an ID that is not in the Index, where "removed" has one reading only.
C4_EvictsLowest ==
    [][\A c \in Slots :
        (PublishCommits(c) /\ max_length # 0 /\ ids[call[c].id] = 0) =>
            members(ids) \ members(ids') = lowest(ids, size(ids) - max_length + 1)]_vars

\* C5: a retract of an ID that is a member of the ID Index when it is
\* checked removes the ID from the Index and the Item Map, emits one retract
\* notification for it and calls back with the ID and no error.
C5_RetractRemoves ==
    [][\A c \in Slots :
        (RetractEnds(c) /\ ids[call[c].id] # 0) =>
            /\ ids'[call[c].id] = 0
            /\ items'[call[c].id] = NoItem
            /\ call'[c].notified = <<Retracted(call[c].id)>>
            /\ call'[c].cb = <<Callback(call[c].id, NoItem, "", 1)>>]_vars

C7_RoundTrip ==
    \A c \in Slots :
        (call[c].op = "publish" /\ call[c].cb # <<>> /\ ~call[c].touched)
            => getItem(call[c].id) = call[c].item

\* C7 witness: a publish to a bounded feed has called back after an aborted
\* attempt, nothing has written its ID since, and another item is stored.
C7_Witness ==
    \E c \in Slots :
        /\ call[c].op = "publish"
        /\ call[c].cb # <<>>
        /\ ~call[c].touched
        /\ call[c].aborts > 0
        /\ max_length # 0
        /\ \E m \in Ids : m # call[c].id /\ items[m] \notin {NoItem, call[c].item}

\* C8: when a publish to a bounded feed commits, every notification sent
\* before its publish or edit notice is a retract, every ID it removed has
\* its retract among them, and the callback runs after the notice; with
\* max_length = 2 and the IDs 1, 2 published in turn, publishing 3 sends
\* retract(1) then publish(3) and leaves getIds = <<2, 3>>.
C8_RetractsBeforeNotice ==
    [][\A c \in Slots :
        (PublishCommits(c) /\ max_length # 0) =>
            LET notes == call'[c].notified
                last == Len(notes)
            IN  /\ last >= 1
                /\ notes[last].kind \in {"publish", "edit"}
                /\ notes[last].id = call[c].id
                /\ \A i \in 1..(last - 1) : notes[i].kind = "retract"
                /\ \A m \in members(ids) \ members(ids') :
                       \E i \in 1..(last - 1) : notes[i] = Retracted(m)
                /\ Len(call'[c].cb) = 1
                /\ call'[c].cb[1].after = last
                /\ ( /\ max_length = 2
                     /\ getIds = <<1, 2>>
                     /\ call[c].id = 3
                     /\ call[c].aborts = 0
                     /\ watched
                     /\ \A d \in Slots \ {c} : call[d].pc \notin {"active", "waiting"} )
                   => /\ notes = <<Retracted(1),
                                   [kind |-> "publish", id |-> 3, item |-> call[c].item]>>
                      /\ getIds' = <<2, 3>>]_vars

\* C8 witness: with max_length = 2, a publish of ID 3 has sent retract(1)
\* then publish(3), has called back, and getIds is <<2, 3>>.
C8_Witness ==
    \E c \in Slots :
        /\ max_length = 2
        /\ call[c].pc = "done"
        /\ call[c].op = "publish"
        /\ call[c].notified = <<Retracted(1),
                                [kind |-> "publish", id |-> 3, item |-> call[c].item]>>
        /\ Len(call[c].cb) = 1
        /\ getIds = <<2, 3>>

C10_SubscribedOnce ==
    [][/\ chanSubs' <= 1
       /\ (subscribed /\ subCalls' = subCalls + 1) =>
             (chanSubs' = chanSubs /\ doneCalls' = doneCalls + 1)]_vars

\* Two sorted sets order the members they share in the same way.
sameOrder(z1, z2) ==
    \A a, b \in members(z1) \cap members(z2) : zless(z1, a, b) <=> zless(z2, a, b)

\* C11: a committed publish of an ID that was not in the ID Index leaves the
\* ID last in getIds (the highest-scored end), and a committed publish of an
\* ID that was in the Index leaves the relative order of the IDs unchanged.
C11_EditKeepsOrder ==
    [][\A c \in Slots :
        PublishCommits(c) =>
            IF ids[call[c].id] = 0
            THEN getIds'[Len(getIds')] = call[c].id
            ELSE sameOrder(ids, ids')]_vars

\* The step in which the call of slot c ends: its transaction commits, or
\* its retract fails with NotFound.
Ends(c) == call[c].pc = "active" /\ call'[c].pc = "done"

\* C12: the lock is held by every call from its first attempt on, retried
\* attempts included, and it is released only by the step in which a call
\* ends (its commit, or the NotFound of a retract), never by an aborted
\* attempt.
C12_LockHeldUntilEnd ==
    [][/\ (lock /\ ~lock') => \E c \in Slots : Ends(c)
       /\ \A c \in Slots : call'[c].pc = "active" => lock']_vars

\* The calls of the process that have started their first attempt and have
\* neither committed nor failed with NotFound.
InFlight == {c \in Slots : call[c].pc = "active"}

\* C13: at most one publish-or-retract call of the process is in flight at
\* any time; a call that waits for the lock is not in flight.
C13_OneInFlight == Cardinality(InFlight) <= 1

\* The step in which the publish of slot c, after an aborted attempt, has
\* read the ID Index again and submits its batch.
RetrySubmits(c) ==
    /\ call[c].op = "publish"
    /\ call[c].pc = "active"
    /\ call[c].aborts > 0
    /\ mredisQ # <<>>
    /\ Head(mredisQ) = Sent(c, "zrange")
    /\ mredisQ' = Append(Tail(mredisQ), Sent(c, "exec"))

\* C14: the batch a retried bounded publish submits holds the removals of
\* the overflow set of the Index as the retry has just read it, then one
\* insert of the ID, one counter increment and one item write, and no
\* command of an earlier attempt.
C14_RetryBatchFresh ==
    [][\A c \in Slots :
        RetrySubmits(c) =>
            call'[c].pmulti = attemptCmds(overflow(ids, max_length), call[c].id,
                                          call[c].item, now')]_vars

\* The step in which Redis serves the EXEC of a bounded publish or of a
\* retract of slot c.
ExecServed(c) ==
    /\ mredisQ # <<>>
    /\ Head(mredisQ) = Sent(c, "exec")
    /\ call[c].op = "retract" \/ max_length # 0
    /\ mredisQ' # mredisQ

\* C15: when the ID Index has changed since the WATCH of the attempt whose
\* batch is submitted, EXEC applies nothing of the batch and the call does
\* not end; so every committed batch was built from the current Index.
C15_CommitsFromCurrentIndex ==
    [][\A c \in Slots :
        (ExecServed(c) /\ call[c].stale) =>
            /\ UNCHANGED storeVars
            /\ call'[c].pc # "done"]_vars

\* The retract of slot c has submitted its batch.  (C16 is about the
\* retry that follows the rejection of such a batch.)
RetractSubmitted(c) ==
    /\ call[c].op = "retract"
    /\ \E i \in 1..Len(mredisQ) : mredisQ[i] = Sent(c, "exec")

\* The call of slot c has been made and has not ended.
Pending(c) == call[c].pc \in {"waiting", "active"}

\* The call of slot c has ended: a publish has committed and called back, a
\* retract has committed or has failed with NotFound.
Ended(c) == call[c].pc = "done" /\ Len(call[c].cb) = 1

C18_CounterCountsCommits ==
    [][IF others' = others
       THEN publishes' = publishes + Cardinality({c \in Slots : PublishCommits(c)})
       ELSE publishes' \in {publishes, publishes + 1}]_vars

\* The kinds of the notifications in a sequence.
kinds(notes) == {notes[i].kind : i \in 1..Len(notes)}

\* C19: a committed publish to a bounded feed of an ID that is in the ID
\* Index removes no ID from the Index or the Item Map and emits no retract
\* notification.
C19_EditRemovesNothing ==
    [][\A c \in Slots :
        (PublishCommits(c) /\ max_length # 0 /\ ids[call[c].id] # 0) =>
            /\ members(ids') = members(ids)
            /\ {m \in Ids : items'[m] # NoItem} = {m \in Ids : items[m] # NoItem}
            /\ "retract" \notin kinds(call'[c].notified)]_vars

\* C20: a step that aborts an attempt changes neither the ID Index, the Item
\* Map nor the Publish Counter and sends no notification; notifications are
\* sent only by the step that commits a batch, and each retract notification
\* of that step is for an ID that was in the Index and that the batch
\* removed, once.
C20_AbortsLeaveNoTrace ==
    [][\A c \in Slots :
        /\ call'[c].aborts > call[c].aborts =>
              /\ UNCHANGED storeVars
              /\ call'[c].notified = call[c].notified
        /\ (call[c].pc = "active" /\ call'[c].notified # call[c].notified) =>
              /\ Ends(c)
              /\ call[c].notified = <<>>
              /\ \A m \in Ids :
                    Len(forId(call'[c].notified, m)) > 0
                    /\ forId(call'[c].notified, m)[1].kind = "retract" =>
                        /\ ids[m] # 0
                        /\ count(call'[c].notified, Retracted(m)) = 1]_vars

====
